---------------------------- MODULE Spec2Model ----------------------------
(***************************************************************************)
(* A model of bill_split.py: the description parser (parse_people,         *)
(* parse_expenses), the group resolver (resolve_aliases), the contribution *)
(* finalizer (finalize_names), the price rescaling of parse_bill, the      *)
(* matcher and allocator (assign_shares) and the rounding reconciler       *)
(* (round_totals).                                                         *)
(*                                                                         *)
(* Each stage has its own specification, whose Init draws the stage's      *)
(* inputs from bounded sets:                                               *)
(*   SpecExpenses  parse_expenses -> resolve_aliases -> finalize_names     *)
(*   SpecResolve   resolve_aliases on arbitrary group definitions          *)
(*   SpecAssign    parse_bill -> assign_shares -> round_totals             *)
(*   SpecRound     round_totals on arbitrary exact shares                  *)
(***************************************************************************)
EXTENDS Integers, Sequences, FiniteSets, TLC

VARIABLES
    pc,          \* position of the run: the stage that acts next, or how it ended
    err,         \* the exception that aborted the run ("" while none)
    data,        \* parse_expenses: the lines of the description
    lineno,      \* parse_expenses: the index of the line the loop handles next
    cat_people,  \* parse_expenses: None, or the persons of the category default
    cat_aliases, \* parse_expenses: None, or the groups of the category default
    aliases,     \* parse_expenses: group name -> set of names, as the lines give it
    items,       \* parse_expenses: item name -> list of Person
    new_aliases, \* resolve_aliases: the map of the innermost call; at the end, the result
    depth,       \* resolve_aliases: the number of recursive calls made so far
    total_paid,  \* parse_bill: the amount of the !paid directive
    bill,        \* parse_bill/assign_shares: the list of BillItems
    final_items, \* finalize_names/assign_shares: item name -> Counter of weights
    matched,     \* assign_shares: matches[0] of every bill item handled so far
    contrib,     \* assign_shares: person -> share, of the bill item handled last
    shares,      \* assign_shares/round_totals: person -> exact total (a Fraction)
    totals,      \* round_totals: person -> rounded total, in cents
    adjusted     \* round_totals: the person whose total took the delta ("" if none)

billVars == <<total_paid, bill, final_items, matched, contrib>>

roundVars == <<totals, adjusted>>

expVars == <<data, lineno, cat_people, cat_aliases, aliases, items, new_aliases, depth>>

vars == <<pc, err, expVars, billVars, shares, roundVars>>

(***************************************************************************)
(* fractions.Fraction: a normalised pair n/d, d > 0.                       *)
(***************************************************************************)
Abs(x) == IF x < 0 THEN -x ELSE x

RECURSIVE GCD(_, _)
GCD(a, b) == IF b = 0 THEN a ELSE GCD(b, a % b)

Fraction(n, d) ==
    LET g == GCD(Abs(n), Abs(d))
        s == IF d < 0 THEN -1 ELSE 1
    IN  [n |-> s * (n \div g), d |-> s * (d \div g)]

FZero == [n |-> 0, d |-> 1]

FAdd(x, y) == Fraction(x.n * y.d + y.n * x.d, x.d * y.d)

FSub(x, y) == Fraction(x.n * y.d - y.n * x.d, x.d * y.d)

FMul(x, y) == Fraction(x.n * y.n, x.d * y.d)

FDiv(x, y) == Fraction(x.n * y.d, x.d * y.n)

FromInt(k) == [n |-> k, d |-> 1]

\* sum(f.values()) for a function f whose values are Fractions
RECURSIVE FSum(_)
FSum(f) ==
    IF DOMAIN f = {} THEN FZero
    ELSE LET k == CHOOSE k \in DOMAIN f : TRUE
         IN  FAdd(f[k], FSum([j \in DOMAIN f \ {k} |-> f[j]]))

\* sum(f.values()) for a function f whose values are integers
RECURSIVE ISum(_)
ISum(f) ==
    IF DOMAIN f = {} THEN 0
    ELSE LET k == CHOOSE k \in DOMAIN f : TRUE
         IN  f[k] + ISum([j \in DOMAIN f \ {k} |-> f[j]])

(***************************************************************************)
(* float: an IEEE-754 double, as the interpreter computes with it.  A      *)
(* double is sign * m * 2^e with m a natural number of at most 53          *)
(* significant bits.  m does not fit the model checker's integers, so it   *)
(* is held as its sequence of digits in base 2^LimbBits, least significant *)
(* first, with no leading zero digit.                                      *)
(***************************************************************************)
MantissaBits == 53

LimbBits == 10

Base == 2 ^ LimbBits

RECURSIVE LStrip(_)
LStrip(a) ==
    IF a = << >> THEN a
    ELSE IF a[Len(a)] = 0 THEN LStrip(SubSeq(a, 1, Len(a) - 1))
    ELSE a

Limb(a, i) == IF i >= 1 /\ i <= Len(a) THEN a[i] ELSE 0

\* a + b + c from digit i on
RECURSIVE LAddFrom(_, _, _, _)
LAddFrom(a, b, i, c) ==
    IF i > Len(a) /\ i > Len(b) THEN (IF c = 0 THEN << >> ELSE <<c>>)
    ELSE LET t == Limb(a, i) + Limb(b, i) + c
         IN  <<t % Base>> \o LAddFrom(a, b, i + 1, t \div Base)

LAdd(a, b) == LAddFrom(a, b, 1, 0)

\* a - b - c from digit i on, for a >= b
RECURSIVE LSubFrom(_, _, _, _)
LSubFrom(a, b, i, c) ==
    IF i > Len(a) THEN << >>
    ELSE LET t == Limb(a, i) - Limb(b, i) - c
         IN  <<t % Base>> \o LSubFrom(a, b, i + 1, IF t < 0 THEN 1 ELSE 0)

LSub(a, b) == LStrip(LSubFrom(a, b, 1, 0))

\* a < b
RECURSIVE LLessFrom(_, _, _)
LLessFrom(a, b, i) ==
    IF i = 0 THEN FALSE
    ELSE IF a[i] # b[i] THEN a[i] < b[i]
    ELSE LLessFrom(a, b, i - 1)

LLess(a, b) == IF Len(a) # Len(b) THEN Len(a) < Len(b) ELSE LLessFrom(a, b, Len(a))

\* a * k for a small k
RECURSIVE LMulFrom(_, _, _, _)
LMulFrom(a, k, i, c) ==
    IF i > Len(a) THEN (IF c = 0 THEN << >> ELSE <<c>>)
    ELSE LET t == a[i] * k + c
         IN  <<t % Base>> \o LMulFrom(a, k, i + 1, t \div Base)

LMul(a, k) == LStrip(LMulFrom(a, k, 1, 0))

\* a * 2^k
LShl(a, k) ==
    IF a = << >> THEN a
    ELSE [i \in 1..(k \div LimbBits) |-> 0] \o LMul(a, 2 ^ (k % LimbBits))

\* a \div 2^k
LShr(a, k) ==
    LET w == k \div LimbBits
        s == k % LimbBits
        n == Len(a) - w
    IN  IF n <= 0 THEN << >>
        ELSE LStrip([i \in 1..n |->
                       (a[i + w] \div 2 ^ s) + (Limb(a, i + w + 1) % 2 ^ s) * 2 ^ (LimbBits - s)])

\* a % 2^k # 0
LLowBits(a, k) ==
    LET w == k \div LimbBits
        s == k % LimbBits
    IN  \/ \E i \in 1..w : Limb(a, i) # 0
        \/ Limb(a, w + 1) % 2 ^ s # 0

\* bit k of a, the bit of weight 2^k
LBit(a, k) == (Limb(a, k \div LimbBits + 1) \div 2 ^ (k % LimbBits)) % 2

RECURSIVE BitLen(_)
BitLen(k) == IF k = 0 THEN 0 ELSE 1 + BitLen(k \div 2)

\* the number of significant bits of a (stripped)
LBitLen(a) == IF a = << >> THEN 0 ELSE (Len(a) - 1) * LimbBits + BitLen(a[Len(a)])

RECURSIVE LToInt(_)
LToInt(a) == IF a = << >> THEN 0 ELSE Head(a) + Base * LToInt(Tail(a))

RECURSIVE LFromInt(_)
LFromInt(k) == IF k = 0 THEN << >> ELSE <<k % Base>> \o LFromInt(k \div Base)

Float(s, m, e) == [s |-> s, m |-> m, e |-> e]

\* round-to-nearest, ties-to-even, of the exact value s * m * 2^e
RoundToDouble(s, m, e) ==
    LET cut == LBitLen(m) - MantissaBits
    IN  IF cut <= 0 THEN Float(s, m, e)
        ELSE LET kept == LShr(m, cut)
                 guard == LBit(m, cut - 1)
                 sticky == LLowBits(m, cut - 1)
                 up == guard = 1 /\ (sticky \/ LBit(kept, 0) = 1)
             IN  Float(s, IF up THEN LAdd(kept, <<1>>) ELSE kept, e + cut)

\* the number of leading zero bits of the binary fraction n/d, 0 < n < d
RECURSIVE LeadingZeros(_, _)
LeadingZeros(n, d) == IF 2 * n >= d THEN 0 ELSE 1 + LeadingZeros(2 * n, d)

\* (r * Base^i) % d: the remainder of the long division of r by d after i digits
RECURSIVE Rem(_, _, _)
Rem(r, d, i) == IF i = 0 THEN r ELSE (Base * Rem(r, d, i - 1)) % d

\* float(Fraction(n, d)), also n / d: the quotient is expanded in base Base
\* to more than MantissaBits + 1 significant bits, a last digit records
\* whether anything is left, and the whole is rounded to nearest, ties to even
FloatOf(x) ==
    LET a == Abs(x.n)
        s == IF x.n < 0 THEN -1 ELSE 1
        q == a \div x.d
        r == a % x.d
        nfrac == (MantissaBits + 2 + (IF q = 0 THEN LeadingZeros(r, x.d) ELSE 0))
                    \div LimbBits + 1
        frac == [i \in 1..nfrac |-> (Base * Rem(r, x.d, nfrac - i)) \div x.d]
        left == IF Rem(r, x.d, nfrac) = 0 THEN 0 ELSE 1
    IN  IF r = 0 THEN RoundToDouble(s, LFromInt(q), 0)
        ELSE RoundToDouble(s, LStrip(<<left>> \o frac \o LFromInt(q)),
                           -(LimbBits * (nfrac + 1)))

FlNeg(a) == Float(-a.s, a.m, a.e)

\* a + b
FlAdd(a, b) ==
    LET e == IF a.e < b.e THEN a.e ELSE b.e
        ma == LShl(a.m, a.e - e)
        mb == LShl(b.m, b.e - e)
    IN  IF a.s = b.s THEN RoundToDouble(a.s, LAdd(ma, mb), e)
        ELSE IF LLess(ma, mb) THEN RoundToDouble(b.s, LSub(mb, ma), e)
        ELSE RoundToDouble(a.s, LSub(ma, mb), e)

FlSub(a, b) == FlAdd(a, FlNeg(b))

\* round(a, 2) in cents: the exact binary value of a, times 100, to the
\* nearest integer, ties to even
Round2(a) ==
    LET n100 == LMul(a.m, 100)
        k == -a.e
        q == IF k <= 0 THEN LToInt(LShl(n100, -k)) ELSE LToInt(LShr(n100, k))
        half == k > 0 /\ LBit(n100, k - 1) = 1
        rest == k > 1 /\ LLowBits(n100, k - 1)
        up == half /\ (rest \/ q % 2 = 1)
    IN  a.s * (IF up THEN q + 1 ELSE q)

\* the float that round(., 2) returns for a result of c cents
Cents(c) == FloatOf(Fraction(c, 100))

\* sum(ts.values()) for rounded totals ts (in cents) iterated in the order
\* given: the start value 0 is an int, then float additions left to right
RECURSIVE FlSumFrom(_, _, _)
FlSumFrom(acc, order, ts) ==
    IF order = << >> THEN acc
    ELSE FlSumFrom(FlAdd(acc, Cents(ts[Head(order)])), Tail(order), ts)

FlSum(order, ts) == FlSumFrom(Float(1, << >>, 0), order, ts)

\* the orders in which a dict with the keys S can iterate
Orders(S) ==
    {o \in [1..Cardinality(S) -> S] : \A i, j \in 1..Cardinality(S) : i # j => o[i] # o[j]}

(***************************************************************************)
(* round_totals(shares)                                                    *)
(***************************************************************************)
SanityBound == 50

\* the person random.choice may pick
Choice(ts) == DOMAIN ts

\* round(sum(totals.values()) - total, 2), in cents
Delta(order, ts, total) == Round2(FlSub(FlSum(order, ts), total))

RoundTotals ==
    /\ pc = "round"
    /\ \E order \in Orders(DOMAIN shares) :
         LET total == FloatOf(FSum(shares))
             ts == [p \in DOMAIN shares |-> Round2(FloatOf(shares[p]))]
             delta == Delta(order, ts, total)
         IN  IF delta = 0
             THEN /\ totals' = ts
                  /\ adjusted' = ""
                  /\ pc' = "returned"
                  /\ err' = ""
             ELSE IF delta > SanityBound
             THEN /\ totals' = ts
                  /\ adjusted' = ""
                  /\ pc' = "failed"
                  /\ err' = "ArithmeticError"
             ELSE \E person \in Choice(ts) :
                    LET ts2 == [ts EXCEPT ![person] =
                                   Round2(FlSub(Cents(ts[person]), Cents(delta)))]
                    IN  /\ totals' = ts2
                        /\ adjusted' = person
                        /\ IF Delta(order, ts2, total) = 0
                           THEN pc' = "returned" /\ err' = ""
                           ELSE pc' = "failed" /\ err' = "AssertionError: Failed to round off"
    /\ UNCHANGED <<shares, billVars, expVars>>

(***************************************************************************)
(* Item names.  A name is a string; Chars gives its characters, which      *)
(* is_sampler and the similarity of difflib work on.                       *)
(***************************************************************************)
Chars(name) ==
    CASE name = "sampler ab" -> <<"s", "a", "m", "p", "l", "e", "r", " ", "a", "b">>
      [] name = "sampler xy" -> <<"s", "a", "m", "p", "l", "e", "r", " ", "x", "y">>
      [] name = "SAMPLER q"  -> <<"S", "A", "M", "P", "L", "E", "R", " ", "q">>
      [] name = "ampler ab"  -> <<"a", "m", "p", "l", "e", "r", " ", "a", "b">>
      [] name = "ampler xy"  -> <<"a", "m", "p", "l", "e", "r", " ", "x", "y">>

\* the characters in code point order: space, upper case, lower case
Alphabet ==
    <<" ", "A", "E", "L", "M", "P", "Q", "R", "S",
      "a", "b", "e", "l", "m", "p", "q", "r", "s", "t", "x", "y">>

Ord(c) == CHOOSE i \in 1..Len(Alphabet) : Alphabet[i] = c

\* str.lower() of one character
LowerChar(c) ==
    CASE c = "A" -> "a" [] c = "E" -> "e" [] c = "L" -> "l" [] c = "M" -> "m"
      [] c = "P" -> "p" [] c = "Q" -> "q" [] c = "R" -> "r" [] c = "S" -> "s"
      [] OTHER -> c

Lower(w) == [i \in 1..Len(w) |-> LowerChar(w[i])]

\* w.startswith(pre)
StartsWith(w, pre) == Len(w) >= Len(pre) /\ SubSeq(w, 1, Len(pre)) = pre

SamplerPrefix == <<"s", "a", "m", "p", "l", "e", "r">>

is_sampler(name) == StartsWith(Lower(Chars(name)), SamplerPrefix)

\* x < y for strings (tuples of characters)
StrLess(x, y) ==
    \/ \E i \in 1..Len(x) :
         /\ i <= Len(y)
         /\ Ord(x[i]) < Ord(y[i])
         /\ \A j \in 1..(i - 1) : x[j] = y[j]
    \/ Len(x) < Len(y) /\ SubSeq(y, 1, Len(x)) = x

(***************************************************************************)
(* difflib.SequenceMatcher(a, b), without junk: find_longest_match returns *)
(* the longest block a[i..i+k) = b[j..j+k) inside a[alo..ahi), b[blo..bhi) *)
(* (the earliest in a, then the earliest in b, among the longest), and the *)
(* matching blocks are that block and, recursively, those to its left and  *)
(* to its right.  Positions are counted from 1.                            *)
(***************************************************************************)
Blocks(a, b, alo, ahi, blo, bhi) ==
    {t \in (alo..(ahi - 1)) \X (blo..(bhi - 1)) \X (1..(ahi - alo)) :
        /\ t[1] + t[3] <= ahi
        /\ t[2] + t[3] <= bhi
        /\ \A d \in 0..(t[3] - 1) : a[t[1] + d] = b[t[2] + d]}

find_longest_match(a, b, alo, ahi, blo, bhi) ==
    LET bs == Blocks(a, b, alo, ahi, blo, bhi)
    IN  IF bs = {} THEN <<alo, blo, 0>>
        ELSE CHOOSE t \in bs :
               \A u \in bs :
                  \/ u[3] < t[3]
                  \/ u[3] = t[3] /\ t[1] < u[1]
                  \/ u[3] = t[3] /\ t[1] = u[1] /\ t[2] <= u[2]

\* the number of matching characters: the sum of the matching blocks' sizes
RECURSIVE MatchCount(_, _, _, _, _, _)
MatchCount(a, b, alo, ahi, blo, bhi) ==
    IF alo >= ahi \/ blo >= bhi THEN 0
    ELSE LET t == find_longest_match(a, b, alo, ahi, blo, bhi)
         IN  IF t[3] = 0 THEN 0
             ELSE t[3] + MatchCount(a, b, alo, t[1], blo, t[2])
                       + MatchCount(a, b, t[1] + t[3], ahi, t[2] + t[3], bhi)

\* SequenceMatcher.ratio() = 2.0 * matches / (len(a) + len(b)), as a Fraction
ratio(a, b) ==
    Fraction(2 * MatchCount(a, b, 1, Len(a) + 1, 1, Len(b) + 1), Len(a) + Len(b))

FLess(x, y) == x.n * y.d < y.n * x.d

CutoffNum == 1

CutoffDen == 2

ItemNames == {"sampler xy", "SAMPLER q", "ampler ab"}

BillNames == {"sampler ab", "ampler xy"}

\* ratio(x, word) for every description name x and bill name word
Similarity ==
    [x \in ItemNames, word \in BillNames |-> ratio(Chars(x), Chars(word))]

Score(x, word) == Similarity[x, word]

\* get_close_matches(word, possibilities, n=1, cutoff=0.5): the possibility
\* whose ratio reaches the cutoff and is the largest (the largest string among
\* equal ratios), as a list of at most one name.  real_quick_ratio() and
\* quick_ratio() are upper bounds of ratio() and filter nothing more.
get_close_matches(word, possibilities) ==
    LET result == {x \in possibilities :
                      ~FLess(Score(x, word), Fraction(CutoffNum, CutoffDen))}
    IN  IF result = {} THEN << >>
        ELSE <<CHOOSE x \in result :
                 \A y \in result \ {x} :
                    \/ FLess(Score(y, word), Score(x, word))
                    \/ /\ Score(y, word) = Score(x, word)
                       /\ StrLess(Chars(y), Chars(x))>>

(***************************************************************************)
(* parse_bill: the rescaling of the prices to the amount paid              *)
(***************************************************************************)
BillItem(name, price) == [name |-> name, price |-> price]

scale_price(item, multiplier) == BillItem(item.name, FMul(item.price, multiplier))

\* sum(item.price for item in items)
RECURSIVE item_sum(_)
item_sum(its) == IF its = << >> THEN FZero ELSE FAdd(Head(its).price, item_sum(Tail(its)))

price_mult(paid, its) == FDiv(paid, item_sum(its))

ParseBill ==
    /\ pc = "parse_bill"
    /\ IF item_sum(bill) = FZero
       THEN /\ pc' = "failed"
            /\ err' = "ZeroDivisionError"
            /\ UNCHANGED bill
       ELSE /\ bill' = [i \in 1..Len(bill) |-> scale_price(bill[i], price_mult(total_paid, bill))]
            /\ pc' = "assign"
            /\ UNCHANGED err
    /\ UNCHANGED <<total_paid, final_items, matched, contrib, shares, roundVars, expVars>>

(***************************************************************************)
(* assign_shares: one step per bill item, then round_totals                *)
(***************************************************************************)
\* a bug CounterTotal could have: the number of persons, not their weights
CounterTotal_Len(people) == Cardinality(DOMAIN people)

\* Counter.total()
CounterTotal(people) == ISum(people)

samplers(entries) == {name \in DOMAIN entries : is_sampler(name)}

\* a bug candidates could have: no restriction for a sampler
candidates_All(entries, name) == DOMAIN entries

candidates(entries, name) ==
    IF is_sampler(name) THEN samplers(entries) ELSE DOMAIN entries

per_person(price, people) == FDiv(price, FromInt(CounterTotal(people)))

\* share = per_person * Fraction(mult), for every person, mult of people.items()
ItemShares(price, people) ==
    [person \in DOMAIN people |-> FMul(per_person(price, people), FromInt(people[person]))]

\* a bug AddShares could have: shares[person] = share
AddShares_Overwrite(sh, new) ==
    [person \in DOMAIN sh \cup DOMAIN new |->
        IF person \in DOMAIN new THEN new[person] ELSE sh[person]]

\* shares[person] += share, on a defaultdict(Fraction)
AddShares(sh, new) ==
    [person \in DOMAIN sh \cup DOMAIN new |->
        FAdd(IF person \in DOMAIN sh THEN sh[person] ELSE FZero,
             IF person \in DOMAIN new THEN new[person] ELSE FZero)]

AssignItem ==
    /\ pc = "assign"
    /\ Len(matched) < Len(bill)
    /\ LET bill_item == bill[Len(matched) + 1]
           matches == get_close_matches(bill_item.name,
                                        candidates(final_items, bill_item.name))
       IN  IF matches = << >>
           THEN /\ pc' = "failed"
                /\ err' = "AssertionError: no match"
                /\ UNCHANGED <<matched, contrib, shares>>
           ELSE LET people == final_items[matches[1]]
                IN  IF CounterTotal(people) = 0
                    THEN /\ pc' = "failed"
                         /\ err' = "AssertionError: No person"
                         /\ UNCHANGED <<matched, contrib, shares>>
                    ELSE /\ contrib' = ItemShares(bill_item.price, people)
                         /\ shares' = AddShares(shares, ItemShares(bill_item.price, people))
                         /\ matched' = Append(matched, matches[1])
                         /\ pc' = IF Len(matched) + 1 = Len(bill) THEN "round" ELSE "assign"
                         /\ UNCHANGED err
    /\ UNCHANGED <<total_paid, bill, final_items, roundVars, expVars>>

(***************************************************************************)
(* Strings of the description are tuples of one-character strings, so     *)
(* that the str methods and the regular expression of the parser act on   *)
(* characters.                                                            *)
(***************************************************************************)
\* the characters str.strip() removes and \s matches, among those of the lines
Whitespace == {" "}

RECURSIVE lstrip(_, _)
lstrip(s, chars) ==
    IF s # << >> /\ Head(s) \in chars THEN lstrip(Tail(s), chars) ELSE s

RECURSIVE rstrip(_, _)
rstrip(s, chars) ==
    IF s # << >> /\ s[Len(s)] \in chars
    THEN rstrip(SubSeq(s, 1, Len(s) - 1), chars)
    ELSE s

strip(s, chars) == rstrip(lstrip(s, chars), chars)

\* c in s
Contains(s, c) == \E i \in 1..Len(s) : s[i] = c

\* s.split(sep), sep one character
RECURSIVE split(_, _)
split(s, sep) ==
    IF ~Contains(s, sep) THEN <<s>>
    ELSE LET k == CHOOSE i \in 1..Len(s) :
                      s[i] = sep /\ \A j \in 1..(i - 1) : s[j] # sep
         IN  <<SubSeq(s, 1, k - 1)>> \o split(SubSeq(s, k + 1, Len(s)), sep)

Digits == <<"0", "1", "2", "3", "4", "5", "6", "7", "8", "9">>

IsDigit(c) == \E k \in 1..Len(Digits) : Digits[k] = c

DigitValue(c) == (CHOOSE k \in 1..Len(Digits) : Digits[k] = c) - 1

\* int(ds), ds a run of decimal digits
RECURSIVE int(_)
int(ds) ==
    IF ds = << >> THEN 0
    ELSE 10 * int(SubSeq(ds, 1, Len(ds) - 1)) + DigitValue(ds[Len(ds)])

\* the length of the run of digits that ends s
RECURSIVE TrailingDigits(_)
TrailingDigits(s) ==
    IF s # << >> /\ IsDigit(s[Len(s)])
    THEN 1 + TrailingDigits(SubSeq(s, 1, Len(s) - 1))
    ELSE 0

\* MULT_PAT.match(person), for (?P<name>.*?)\s+x(?P<mult>\d+)$ : the digits
\* are the run that ends the string, the x stands before them, at least one
\* whitespace before the x, and the lazy name ends where that whitespace
\* starts.  << >> when there is no match.
MULT_PAT(person) ==
    LET nd == TrailingDigits(person)
        xpos == Len(person) - nd
        before == SubSeq(person, 1, xpos - 1)
        name == rstrip(before, Whitespace)
    IN  IF nd >= 1 /\ xpos >= 2 /\ person[xpos] = "x" /\ Len(name) < Len(before)
        THEN <<[name |-> name, mult |-> int(SubSeq(person, xpos + 1, Len(person)))]>>
        ELSE << >>

(***************************************************************************)
(* parse_people                                                            *)
(***************************************************************************)
EVERYONE_NAME == <<"@", "e", "v", "e", "r", "y", "o", "n", "e">>

Person(name, negate, multiplier) ==
    [name |-> name, negate |-> negate, multiplier |-> multiplier]

EVERYONE == Person(EVERYONE_NAME, FALSE, 1)

\* '@' in name
IsAlias(name) == Contains(name, "@")

\* one round of the loop of parse_people: the Person of a token, and whether
\* it goes to the aliases
ParseToken(token) ==
    LET person == strip(token, Whitespace)
        neg == person # << >> /\ Head(person) = "-"
        stripped == IF neg THEN lstrip(lstrip(person, {"-"}), Whitespace) ELSE person
        match == MULT_PAT(stripped)
    IN  IF person = EVERYONE_NAME
        THEN [alias |-> TRUE, person |-> EVERYONE]
        ELSE [alias |-> IsAlias(stripped),
              person |-> IF match # << >>
                         THEN Person(match[1].name, neg, match[1].mult)
                         ELSE Person(stripped, neg, 1)]

ToAliases(t) == t.alias

ToPeople(t) == ~t.alias

PersonsOf(tokens) == SubSeq([i \in 1..Len(tokens) |-> tokens[i].person], 1, Len(tokens))

parse_people(names_str) ==
    LET fields == split(strip(names_str, {",", " "}), ",")
        tokens == SubSeq([i \in 1..Len(fields) |-> ParseToken(fields[i])], 1, Len(fields))
    IN  [people |-> PersonsOf(SelectSeq(tokens, ToPeople)),
         aliases |-> PersonsOf(SelectSeq(tokens, ToAliases))]

(***************************************************************************)
(* parse_expenses, one line of the description per step                    *)
(***************************************************************************)
None == << >>

Some(x) == <<x>>

\* the names of a list of Person
Names(persons) == {persons[i].name : i \in 1..Len(persons)}

\* d[key].update(names), d a defaultdict(set)
Update(d, key, names) ==
    [k \in DOMAIN d \cup {key} |->
        IF k = key
        THEN (IF key \in DOMAIN d THEN d[key] ELSE {}) \cup names
        ELSE d[k]]

\* d[key] = value
Put(d, key, value) ==
    [k \in DOMAIN d \cup {key} |-> IF k = key THEN value ELSE d[k]]

\* a bug cur_all could have: the groups of the category default are left out
cur_all_PeopleOnly(people, groups) == people[1]

\* cat_people + cat_aliases
cur_all(people, groups) == people[1] \o groups[1]

\* the body of the loop of parse_expenses for one line: the locals it leaves,
\* and the exception it raises ("" if none)
parse_line(line, st) ==
    LET split_ == split(line, ":")
        Failed(e) == [st EXCEPT !.err = e]
    IN  IF line = << >> \/ Head(line) = "!" THEN st
        ELSE IF Head(line) = "@"
        THEN IF Len(split_) = 1 THEN Failed("IndexError")
             ELSE LET alias == strip(split_[1], Whitespace)
                      parsed == parse_people(strip(split_[2], Whitespace))
                  IN  IF \E i \in 1..Len(parsed.aliases) :
                             \/ parsed.aliases[i].negate
                             \/ parsed.aliases[i].multiplier # 1
                      THEN Failed("AssertionError")
                      ELSE [st EXCEPT !.aliases =
                               Update(st.aliases, alias,
                                      Names(parsed.people) \cup Names(parsed.aliases))]
        ELSE IF Head(line) = "#"
        THEN IF Len(split_) > 1
             THEN LET parsed == parse_people(strip(split_[2], Whitespace))
                  IN  [st EXCEPT !.cat_people = Some(parsed.people),
                                 !.cat_aliases = Some(parsed.aliases),
                                 !.aliases = Update(st.aliases, EVERYONE_NAME,
                                                    Names(parsed.people))]
             ELSE [st EXCEPT !.cat_people = None, !.cat_aliases = None]
        ELSE LET item_name == strip(split_[1], Whitespace)
             IN  IF Len(split_) = 1
                 THEN IF /\ st.cat_people # None
                         /\ st.cat_aliases # None
                         /\ (st.cat_people[1] # << >> \/ st.cat_aliases[1] # << >>)
                      THEN [st EXCEPT !.items =
                               Put(st.items, item_name,
                                   cur_all(st.cat_people, st.cat_aliases))]
                      ELSE Failed("AssertionError: no category people/aliases defined")
                 ELSE LET parsed == parse_people(strip(split_[2], Whitespace))
                      IN  [st EXCEPT !.aliases = Update(st.aliases, EVERYONE_NAME,
                                                        Names(parsed.people)),
                                     !.items = Put(st.items, item_name,
                                                   parsed.people \o parsed.aliases)]

ParseLine ==
    /\ pc = "parse_expenses"
    /\ LET st == parse_line(data[lineno],
                            [cat_people |-> cat_people, cat_aliases |-> cat_aliases,
                             aliases |-> aliases, items |-> items, err |-> ""])
           last == lineno = Len(data)
       IN  IF st.err # ""
           THEN /\ pc' = "failed"
                /\ err' = st.err
                /\ UNCHANGED <<lineno, cat_people, cat_aliases, aliases, items,
                               new_aliases>>
           ELSE /\ cat_people' = st.cat_people
                /\ cat_aliases' = st.cat_aliases
                /\ aliases' = st.aliases
                /\ items' = st.items
                /\ lineno' = lineno + 1
                \* after the last line: aliases = resolve_aliases(aliases)
                /\ pc' = IF last THEN "resolve_aliases" ELSE "parse_expenses"
                /\ new_aliases' = IF last THEN st.aliases ELSE new_aliases
                /\ UNCHANGED err
    /\ UNCHANGED <<data, depth, billVars, shares, roundVars>>

(***************************************************************************)
(* resolve_aliases, one call of the recursion per step                     *)
(***************************************************************************)
\* the depth of recursion at which the interpreter raises RecursionError
RecursionLimit == 5

\* a bug Resolved could have: any instead of the outer all
Resolved_Any(al) == \E k \in DOMAIN al : \A n \in al[k] : ~IsAlias(n)

\* all(all('@' not in name for name in v) for v in aliases.values())
Resolved(al) == \A k \in DOMAIN al : \A n \in al[k] : ~IsAlias(n)

\* the groups a set of names refers to
Refs(people) == {n \in people : IsAlias(n)}

\* new_people.remove(alias); new_people.update(aliases[alias]), for the
\* aliases of order one after the other
RECURSIVE expand(_, _, _)
expand(new_people, order, al) ==
    IF order = << >> THEN new_people
    ELSE expand((new_people \ {Head(order)}) \cup al[Head(order)], Tail(order), al)

\* what the inner loop can leave in new_people: the set people is iterated in
\* an order that the hashes of its strings decide
new_people(people, al) == {expand(people, order, al) : order \in Orders(Refs(people))}

\* the maps new_aliases one pass can build
Passes(al) ==
    {f \in [DOMAIN al -> UNION {new_people(al[k], al) : k \in DOMAIN al}] :
        \A k \in DOMAIN al : f[k] \in new_people(al[k], al)}

\* the groups referred to in al without a definition in it
Undefined(al) == UNION {Refs(al[k]) : k \in DOMAIN al} \ DOMAIN al

ResolveAliases ==
    /\ pc = "resolve_aliases"
    /\ IF Resolved(new_aliases)
       THEN \* Done!  every call of the recursion returns the map
            /\ pc' = "finalize_names"
            /\ UNCHANGED <<err, new_aliases, depth>>
       ELSE IF Undefined(new_aliases) # {}
       THEN \* aliases[alias] of a name without definition: the defaultdict of
            \* parse_expenses grows under the iteration, a dict has no such key
            /\ pc' = "failed"
            /\ err' = IF depth = 0 THEN "RuntimeError" ELSE "KeyError"
            /\ UNCHANGED <<new_aliases, depth>>
       ELSE IF depth + 1 >= RecursionLimit
       THEN /\ pc' = "failed"
            /\ err' = "RecursionError"
            /\ UNCHANGED <<new_aliases, depth>>
       ELSE /\ new_aliases' \in Passes(new_aliases)
            /\ depth' = depth + 1
            /\ UNCHANGED <<pc, err>>
    /\ UNCHANGED <<data, lineno, cat_people, cat_aliases, aliases, items,
                   billVars, shares, roundVars>>

(***************************************************************************)
(* finalize_names                                                          *)
(***************************************************************************)
\* aliases[name], on the map resolve_aliases returned
Members(al, name) == IF name \in DOMAIN al THEN al[name] ELSE {}

\* any(name.negate for name in names) and not any('@' in name.name for name in names)
NeedsEveryone(names) ==
    /\ \E i \in 1..Len(names) : names[i].negate
    /\ ~\E i \in 1..Len(names) : IsAlias(names[i].name)

\* the names of expanded_names that the occurrence person stands for
Expanded(person, al) ==
    IF IsAlias(person.name) THEN Members(al, person.name) ELSE {person.name}

\* the multipliers that the occurrences of names with the flag negate add up
\* for name
RECURSIVE Weight(_, _, _, _)
Weight(names, negate, name, al) ==
    IF names = << >> THEN 0
    ELSE (IF Head(names).negate = negate /\ name \in Expanded(Head(names), al)
          THEN Head(names).multiplier ELSE 0)
         + Weight(Tail(names), negate, name, al)

\* the names that the occurrences of names with the flag negate touch
Touched(names, negate, al) ==
    UNION {Expanded(names[i], al) : i \in {j \in 1..Len(names) : names[j].negate = negate}}

\* the Counter final_names before the subtraction
kept(names, al) ==
    LET seed == IF NeedsEveryone(names) THEN Members(al, EVERYONE_NAME) ELSE {}
    IN  [name \in seed \cup Touched(names, FALSE, al) |->
            (IF name \in seed THEN 1 ELSE 0) + Weight(names, FALSE, name, al)]

\* the Counter removed_names
removed(names, al) ==
    [name \in Touched(names, TRUE, al) |-> Weight(names, TRUE, name, al)]

\* Counter lookup: a missing key counts 0
Count(counter, name) == IF name \in DOMAIN counter THEN counter[name] ELSE 0

\* final_names -= removed_names, Counter.__isub__: the counts are subtracted
\* and only the positive ones are kept
isub(final_names, removed_names) ==
    LET diff(name) == Count(final_names, name) - Count(removed_names, name)
    IN  [name \in {n \in DOMAIN final_names \cup DOMAIN removed_names : diff(n) > 0} |->
            diff(name)]

\* the group names whose lookup raises KeyError: the map is a plain dict once
\* resolve_aliases has made a pass, and still the defaultdict otherwise
MissingKeys(names, al, d) ==
    IF d = 0 THEN {}
    ELSE ({names[i].name : i \in {j \in 1..Len(names) : IsAlias(names[j].name)}}
          \cup (IF NeedsEveryone(names) THEN {EVERYONE_NAME} ELSE {})) \ DOMAIN al

\* the exception the loop body raises for one item ("" if none)
item_error(names, al, d) ==
    LET final_names == isub(kept(names, al), removed(names, al))
    IN  IF MissingKeys(names, al, d) # {} THEN "KeyError"
        ELSE IF \E name \in DOMAIN final_names : StartsWith(name, <<"@">>)
        THEN "AssertionError: found alias in final_names"
        ELSE IF \E name \in DOMAIN final_names : final_names[name] < 0
        THEN "AssertionError: got negative contribution"
        ELSE ""

FinalizeNames ==
    /\ pc = "finalize_names"
    /\ LET failing == {item \in DOMAIN items :
                          item_error(items[item], new_aliases, depth) # ""}
       IN  IF failing # {}
           THEN /\ pc' = "failed"
                /\ \E item \in failing :
                      err' = item_error(items[item], new_aliases, depth)
                /\ UNCHANGED final_items
           ELSE /\ pc' = "finalized"
                /\ final_items' =
                      [item \in DOMAIN items |->
                          isub(kept(items[item], new_aliases),
                               removed(items[item], new_aliases))]
                /\ UNCHANGED err
    /\ UNCHANGED <<expVars, total_paid, bill, matched, contrib, shares, roundVars>>

\* the variables of the description, in a run that reads none
NoExpenses ==
    /\ data = << >>
    /\ lineno = 1
    /\ cat_people = None
    /\ cat_aliases = None
    /\ aliases = << >>
    /\ items = << >>
    /\ new_aliases = << >>
    /\ depth = 0

(***************************************************************************)
(* SpecRound: round_totals applied to every map of at most MaxRoundPersons *)
(* persons to exact shares k/(100*ShareDen), 0 <= k <= MaxShareNum.        *)
(***************************************************************************)
Persons == {"A", "B", "C"}

MaxRoundPersons == 2

ShareDen == 4

MaxShareNum == 22

ShareValues == {Fraction(k, 100 * ShareDen) : k \in 0..MaxShareNum}

InitRound ==
    /\ pc = "round"
    /\ err = ""
    /\ \E P \in SUBSET Persons :
         /\ P # {}
         /\ Cardinality(P) <= MaxRoundPersons
         /\ shares \in [P -> ShareValues]
    /\ totals = << >>
    /\ adjusted = ""
    /\ total_paid = FZero
    /\ bill = << >>
    /\ final_items = << >>
    /\ matched = << >>
    /\ contrib = << >>
    /\ NoExpenses

NextRound == RoundTotals

SpecRound == InitRound /\ [][NextRound]_vars

(***************************************************************************)
(* SpecAssign: parse_bill's rescaling, assign_shares and round_totals, on  *)
(* every bill of at most MaxBill items and every finalized description    *)
(* over ItemNames whose weights are at most MaxWeight.                     *)
(***************************************************************************)
MaxBill == 2

MaxWeight == 2

AssignPersons == {"A", "B"}

\* the prices of the bill's lines, before the rescaling
Prices == {FromInt(1), FromInt(2)}

PaidTotals == {FromInt(1), FromInt(3)}

\* what finalize_names leaves in a Counter: positive weights only
Counters == UNION {[P -> 1..MaxWeight] : P \in SUBSET AssignPersons}

Bills ==
    UNION {[1..n -> {BillItem(name, price) : name \in BillNames, price \in Prices}] :
              n \in 1..MaxBill}

InitAssign ==
    /\ pc = "parse_bill"
    /\ err = ""
    /\ total_paid \in PaidTotals
    /\ bill \in Bills
    /\ \E K \in SUBSET ItemNames : final_items \in [K -> Counters]
    /\ matched = << >>
    /\ contrib = << >>
    /\ shares = << >>
    /\ totals = << >>
    /\ adjusted = ""
    /\ NoExpenses

NextAssign == ParseBill \/ AssignItem \/ RoundTotals

SpecAssign == InitAssign /\ [][NextAssign]_vars

(***************************************************************************)
(* SpecExpenses: parse_expenses, resolve_aliases and finalize_names on     *)
(* every description of at most MaxLines lines drawn from Lines.           *)
(***************************************************************************)
MaxLines == 3

Lines ==
    {
     \* # c: A, B, C
     <<"#", " ", "c", ":", " ", "A", ",", " ", "B", ",", " ", "C">>,
     \* # c
     <<"#", " ", "c">>,
     \* # c: @g
     <<"#", " ", "c", ":", " ", "@", "g">>,
     \* # c:
     <<"#", " ", "c", ":">>,
     \* p
     <<"p">>,
     \* q
     <<"q">>,
     \* p: A
     <<"p", ":", " ", "A">>,
     \* p: -A x2
     <<"p", ":", " ", "-", "A", " ", "x", "2">>,
     \* p: -A, B x2
     <<"p", ":", " ", "-", "A", ",", " ", "B", " ", "x", "2">>,
     \* q: @everyone
     <<"q", ":", " ", "@", "e", "v", "e", "r", "y", "o", "n", "e">>,
     \* q: @g, -B
     <<"q", ":", " ", "@", "g", ",", " ", "-", "B">>,
     \* @g: D
     <<"@", "g", ":", " ", "D">>,
     \* @g: @h
     <<"@", "g", ":", " ", "@", "h">>,
     \* @h: @g, A
     <<"@", "h", ":", " ", "@", "g", ",", " ", "A">>,
     \* ! note
     <<"!", " ", "n", "o", "t", "e">>,
     \* (an empty line)
     << >>,
     \* q: A, -A x2
     <<"q", ":", " ", "A", ",", " ", "-", "A", " ", "x", "2">>,
     \* @g: -@h
     <<"@", "g", ":", " ", "-", "@", "h">>
    }

\* the variables of the bill, in a run that reads none
NoBill ==
    /\ total_paid = FZero
    /\ bill = << >>
    /\ final_items = << >>
    /\ matched = << >>
    /\ contrib = << >>
    /\ shares = << >>
    /\ totals = << >>
    /\ adjusted = ""

InitExpenses ==
    /\ pc = "parse_expenses"
    /\ err = ""
    /\ \E n \in 1..MaxLines : data \in [1..n -> Lines]
    /\ lineno = 1
    /\ cat_people = None
    /\ cat_aliases = None
    /\ aliases = << >>
    /\ items = << >>
    /\ new_aliases = << >>
    /\ depth = 0
    /\ NoBill

NextExpenses == ParseLine \/ ResolveAliases \/ FinalizeNames

SpecExpenses == InitExpenses /\ [][NextExpenses]_vars

(***************************************************************************)
(* SpecResolve: resolve_aliases on every map that gives some of GroupNames *)
(* a non-empty set of at most MaxMembers names, as the group lines of a    *)
(* description do.  The recursion goes on as long as it can:               *)
(* SpecResolveFair.                                                        *)
(***************************************************************************)
MaxMembers == 2

GroupNames == {<<"@", "g">>, <<"@", "h">>, <<"@", "k">>}

PersonNames == {<<"A">>, <<"B">>}

InitResolve ==
    /\ pc = "resolve_aliases"
    /\ err = ""
    /\ \E G \in SUBSET GroupNames :
         /\ G # {}
         /\ aliases \in [G -> {M \in SUBSET (GroupNames \cup PersonNames) :
                                   M # {} /\ Cardinality(M) <= MaxMembers}]
    /\ new_aliases = aliases
    /\ depth = 0
    /\ data = << >>
    /\ lineno = 1
    /\ cat_people = None
    /\ cat_aliases = None
    /\ items = << >>
    /\ NoBill

NextResolve == ResolveAliases

SpecResolve == InitResolve /\ [][NextResolve]_vars

SpecResolveFair == SpecResolve /\ WF_vars(NextResolve)

(***************************************************************************)
(* The claim about round_totals (SpecRound)                                *)
(***************************************************************************)
\* The exact value x rounded to 2 decimals, in cents, under the two usual tie
\* rules: ties to even (Python's round() on an exact value) and ties up.
RoundHalfEven(x) ==
    LET q == (100 * x.n) \div x.d
        r == (100 * x.n) % x.d
    IN  IF 2 * r < x.d THEN q
        ELSE IF 2 * r > x.d THEN q + 1
        ELSE IF q % 2 = 0 THEN q ELSE q + 1

RoundHalfUp(x) ==
    LET q == (100 * x.n) \div x.d
        r == (100 * x.n) % x.d
    IN  IF 2 * r < x.d THEN q ELSE q + 1

\* C1: whenever round_totals returns, the returned per-person totals (in
\* cents) sum to the exact grand total rounded to 2 decimals, whichever way a
\* total lying exactly half a cent between two values is rounded: to the even
\* cent, upwards, or as round(float(total), 2) rounds it.
C1_SumIsRoundedTotal ==
    pc = "returned" =>
        ISum(totals) \in {RoundHalfEven(FSum(shares)), RoundHalfUp(FSum(shares)),
                          Round2(FloatOf(FSum(shares)))}

(***************************************************************************)
(* The claims about parse_bill and assign_shares (SpecAssign)              *)
(***************************************************************************)
Range(f) == {f[x] : x \in DOMAIN f}

\* C2: for every priced item matched to a description entry, the per-person
\* contributions computed for it sum exactly, as rationals, to its price.
C2_ContributionsSumToPrice ==
    Len(matched) >= 1 => FSum(contrib) = bill[Len(matched)].price

\* C2's case: an item split between two persons of different weights, whose
\* price the rescaling made a proper fraction
C2_Witness ==
    /\ Len(matched) >= 1
    /\ Cardinality(DOMAIN contrib) = 2
    /\ \E p, q \in DOMAIN contrib : contrib[p] # contrib[q]
    /\ bill[Len(matched)].price.d # 1

\* x reaches the similarity threshold against the bill name word
ReachesCutoff(x, word) == ~FLess(Score(x, word), Fraction(CutoffNum, CutoffDen))

\* C9: a priced item with the sampler prefix is only ever matched to an entry
\* with the prefix; when no entry with the prefix reaches the threshold the
\* step fails with the no-match assertion instead of falling back to another
\* entry; an item without the prefix is matched whenever any entry reaches
\* the threshold.
C9_SamplerOnlyMatchesSampler ==
    /\ [](\A i \in 1..Len(matched) :
            /\ matched[i] \in DOMAIN final_items
            /\ ReachesCutoff(matched[i], bill[i].name)
            /\ is_sampler(bill[i].name) => is_sampler(matched[i]))
    /\ [][(pc = "assign" /\ Len(matched) < Len(bill)) =>
            LET word == bill[Len(matched) + 1].name
                pool == IF is_sampler(word)
                        THEN {x \in DOMAIN final_items : is_sampler(x)}
                        ELSE DOMAIN final_items
            IN  IF \E x \in pool : ReachesCutoff(x, word)
                THEN err' # "AssertionError: no match"
                ELSE pc' = "failed" /\ err' = "AssertionError: no match"
                     /\ matched' = matched]_vars

\* C9's case: a sampler item was matched to a sampler entry although an entry
\* without the prefix is more similar to it
C9_Witness ==
    \E i \in 1..Len(matched) :
        /\ is_sampler(bill[i].name)
        /\ is_sampler(matched[i])
        /\ \E x \in DOMAIN final_items :
              /\ ~is_sampler(x)
              /\ FLess(Score(matched[i], bill[i].name), Score(x, bill[i].name))

\* C10: when the loop of assign_shares has handled the whole bill, every
\* priced item was matched to one description entry and the exact totals of
\* all persons sum exactly to the total paid.
C10_SharesSumToPaid ==
    pc \in {"round", "returned"} =>
        /\ Len(matched) = Len(bill)
        /\ \A i \in 1..Len(matched) : matched[i] \in DOMAIN final_items
        /\ FSum(shares) = total_paid

\* C10's case: two priced items matched the same entry, another entry was
\* matched by none, and the prices were rescaled
C10_Witness ==
    /\ pc = "round"
    /\ \E i, j \in 1..Len(matched) : i # j /\ matched[i] = matched[j]
    /\ \E x \in DOMAIN final_items : x \notin Range(matched)
    /\ \E i \in 1..Len(bill) : bill[i].price.d # 1

(***************************************************************************)
(* The claims about resolve_aliases (SpecResolve, SpecResolveFair)         *)
(***************************************************************************)
\* the groups that the names of S reach through references, S included
RECURSIVE ReachFrom(_, _)
ReachFrom(al, S) ==
    LET T == S \cup UNION {Refs(Members(al, g)) : g \in S}
    IN  IF T = S THEN S ELSE ReachFrom(al, T)

\* the groups g reaches through one reference or more
GroupsReached(al, g) == ReachFrom(al, Refs(Members(al, g)))

Cyclic(al) == \E g \in DOMAIN al : g \in GroupsReached(al, g)

AllDefined(al) == \A g \in DOMAIN al : Refs(al[g]) \subseteq DOMAIN al

\* the person names g reaches through its references
ReachablePersons(al, g) ==
    UNION {Members(al, h) \ Refs(Members(al, h)) : h \in {g} \cup GroupsReached(al, g)}

\* C5: when the group definitions hold a reference cycle (every group
\* referred to being defined), resolve_aliases fails with the error
\* CyclicGroupReference and returns no membership map.
C5_CycleRejected ==
    (Cyclic(aliases) /\ AllDefined(aliases)) =>
        /\ pc # "finalize_names"
        /\ pc = "failed" => err = "CyclicGroupReference"

\* C6: when the reference graph is acyclic and every group referred to is
\* defined, resolve_aliases does not fail, it terminates, and in its result
\* every group holds person names only, namely all the person names the
\* group reaches through its references.
C6_AcyclicResolves ==
    /\ []((~Cyclic(aliases) /\ AllDefined(aliases)) =>
            /\ pc # "failed"
            /\ pc = "finalize_names" =>
                  /\ DOMAIN new_aliases = DOMAIN aliases
                  /\ \A g \in DOMAIN aliases :
                        /\ \A n \in new_aliases[g] : ~Contains(n, "@")
                        /\ new_aliases[g] = ReachablePersons(aliases, g))
    /\ (~Cyclic(aliases) /\ AllDefined(aliases)) ~> (pc = "finalize_names")

\* C6's case: a chain of references two groups long was resolved, which took
\* two passes
C6_Witness ==
    /\ pc = "finalize_names"
    /\ depth >= 2
    /\ ~Cyclic(aliases) /\ AllDefined(aliases)
    /\ \E g \in DOMAIN aliases :
          \E n \in new_aliases[g] :
              n \notin aliases[g] /\ \A h \in Refs(aliases[g]) : n \notin aliases[h]

(***************************************************************************)
(* The claims about parse_expenses and finalize_names (SpecExpenses)       *)
(***************************************************************************)
\* C3: whenever for some item and person the removed weight exceeds the kept
\* weight, finalize_names fails with "got negative contribution" and returns
\* no finalized items.
C3_NegativeContributionFails ==
    (/\ pc \in {"finalized", "failed"}
     /\ lineno > Len(data)
     /\ \E item \in DOMAIN items :
           \E name \in DOMAIN removed(items[item], new_aliases) :
               removed(items[item], new_aliases)[name]
                   > Count(kept(items[item], new_aliases), name))
    => (pc = "failed" /\ final_items = << >>)

\* C4: for an item whose list holds a negated occurrence and no group
\* reference, the finalized weight of every person (a person without an entry
\* weighs 0) is 1 if the person is in the resolved everyone-group, plus the
\* multipliers of its non-negated occurrences, minus those of its negated ones.
C4_NegationSeedsEveryone ==
    pc = "finalized" =>
        \A item \in DOMAIN items :
            NeedsEveryone(items[item]) =>
                \A name \in Members(new_aliases, EVERYONE_NAME) \cup Names(items[item]) :
                    Count(final_items[item], name) =
                        (IF name \in Members(new_aliases, EVERYONE_NAME) THEN 1 ELSE 0)
                        + Weight(items[item], FALSE, name, new_aliases)
                        - Weight(items[item], TRUE, name, new_aliases)

\* the person names on the participant list of a line of any kind
PersonNamesOn(line) ==
    IF line = << >> \/ Head(line) = "!" \/ ~Contains(line, ":") THEN {}
    ELSE {n \in Names(parse_people(strip(split(line, ":")[2], Whitespace)).people) :
             n # << >>}

\* the list uses the everyone-group: by name, or by holding negations only
UsesEveryone(names) ==
    \/ NeedsEveryone(names)
    \/ \E i \in 1..Len(names) : names[i].name = EVERYONE_NAME

\* C7: when parse_expenses has scanned the whole description and returned, and
\* some item uses the everyone-group, the resolved everyone-group holds every
\* person name of every line of the description, whatever the kind of the line.
C7_EveryoneHasAllNames ==
    (pc = "finalized" /\ \E item \in DOMAIN items : UsesEveryone(items[item])) =>
        \A i \in 1..Len(data) :
            PersonNamesOn(data[i]) \subseteq Members(new_aliases, EVERYONE_NAME)

IsHeader(line) == line # << >> /\ Head(line) = "#"

IsItemLine(line) == line # << >> /\ Head(line) \notin {"!", "@", "#"}

HasList(line) == Len(split(line, ":")) > 1

\* the text of the participant list of a line that has one
ListOf(line) == strip(split(line, ":")[2], Whitespace)

\* the index of the last category header before line i, 0 if there is none
LastHeader(i) ==
    LET H == {j \in 1..(i - 1) : IsHeader(data[j])}
    IN  IF H = {} THEN 0 ELSE CHOOSE j \in H : \A k \in H : k <= j

\* C8: an item line without a list receives the list of the most recent
\* category header when that header carried a list that names someone; it
\* fails with the no-category assertion, no items being produced, when no
\* category header precedes it or the most recent one had no list.  An item
\* line with a list of its own leaves the category default as it is.
C8_CategoryDefault ==
    /\ [][(pc = "parse_expenses" /\ IsItemLine(data[lineno])) =>
            LET line == data[lineno]
                h == LastHeader(lineno)
            IN  IF HasList(line)
                THEN cat_people' = cat_people /\ cat_aliases' = cat_aliases
                ELSE IF h = 0 \/ ~HasList(data[h])
                THEN /\ pc' = "failed"
                     /\ err' = "AssertionError: no category people/aliases defined"
                     /\ items' = items
                ELSE strip(ListOf(data[h]), {",", " "}) # << >> =>
                        /\ pc' # "failed"
                        /\ items'[strip(line, Whitespace)] =
                              parse_people(ListOf(data[h])).people
                                  \o parse_people(ListOf(data[h])).aliases]_vars
    /\ []((pc = "failed" /\ lineno <= Len(data)) => final_items = << >>)

\* C8's case: an item line without a list was given the list of a category
\* header although an item line with a list of its own stands between them
C8_Witness ==
    /\ pc # "failed"
    /\ \E i, j, k \in 1..Len(data) :
          /\ i < j /\ j < k /\ k < lineno
          /\ IsHeader(data[i]) /\ HasList(data[i])
          /\ IsItemLine(data[j]) /\ HasList(data[j])
          /\ IsItemLine(data[k]) /\ ~HasList(data[k])
          /\ items[data[k]] # items[strip(split(data[j], ":")[1], Whitespace)]
          /\ Len(items[data[k]]) >= 2

=============================================================================
